---- MODULE Spec2Model ----
(***************************************************************************)
(* Model of speciesRNN.ipynb: corpus loading, the character <-> index      *)
(* maps, the one-hot encoder, the 101-epoch training loop with its         *)
(* checkpoint sampler, and the final prefix sampler.                       *)
(*                                                                         *)
(* Characters are their ASCII codes, so that sorted(list(char_set)) is the *)
(* numeric order.  Python indices are 0-based: the arrays X, Y are         *)
(* functions over 0..n-1; Python strings and lists (species entries,       *)
(* char_list, generated, the time axis of the running sequence x) are TLA+ *)
(* sequences, so Python's s[t] is s[t + 1] here.                           *)
(***************************************************************************)
EXTENDS Integers, Sequences, FiniteSets, TLC

VARIABLES pc, file, species, char_set, n_x, char_list, char_map, maxlen, X, Y,
          weights, epoch, log, first_idx, x, generated, idx_sampled,
          prefix, staph, round, candidates

vars == <<pc, file, species, char_set, n_x, char_list, char_map, maxlen, X, Y,
          weights, epoch, log, first_idx, x, generated, idx_sampled,
          prefix, staph, round, candidates>>

dataVars == <<file, species, char_set, n_x, char_list, char_map, maxlen, X, Y>>
trainVars == <<weights, epoch, log>>
sampleVars == <<first_idx, x, generated, idx_sampled>>
prefixVars == <<prefix, staph, round, candidates>>

\* ---------------------------------------------------------------- bounds
MaxLines == 2
MaxLineLen == 2
MaxGen == 2
MaxCompletion == 1

\* ------------------------------------------------------------ characters
NL == 10
AT == 64
N_EPOCHS == 101
CHECK_EVERY == 10
FIRST_LOW == 2
N_ROUNDS == 10

\* '-', 'A', 'a': a character that sorts before '@', an upper case letter
\* and its lower case form, which sorts after '@'.
FileChars == {45, 65, 97}

\* the value of first_idx and idx_sampled while the name is not bound yet
None == 0 - 1

\* ------------------------------------------------------------- the file
\* A text file as Python iterates it: every line ends with "\n", except
\* possibly the last one, which then is not empty.
Bodies == UNION {[1..n -> FileChars] : n \in 0..MaxLineLen}

FullLines == {b \o <<NL>> : b \in Bodies}

LastLines == FullLines \cup (Bodies \ {<<>>})

\* f is a file of at most MaxLines lines
IsFile(f) == \A i \in 1..(Len(f) - 1) : f[i][Len(f[i])] = NL

\* ---------------------------------------------------------- str methods
\* str.replace("\n", "@")
Replace(line) == [j \in 1..Len(line) |-> IF line[j] = NL THEN AT ELSE line[j]]

\* str.lower() on ASCII
Lower(line) == [j \in 1..Len(line) |->
                  IF line[j] >= 65 /\ line[j] <= 90 THEN line[j] + 32 ELSE line[j]]

\* species.append(line.replace("\n", "@").lower()) for every line
ReadSpecies(f) == [i \in 1..Len(f) |-> Lower(Replace(f[i]))]

\* char_set.add(j) for every j of every i in species
CharSetOf(sp) == {sp[i][j] : <<i, j>> \in
                     UNION {{<<i, j>> : j \in 1..Len(sp[i])} : i \in 1..Len(sp)}}

\* sorted(list(char_set))
RECURSIVE Sorted(_)
Sorted(S) == IF S = {} THEN <<>>
             ELSE LET m == CHOOSE c \in S : \A d \in S : c <= d
                  IN <<m>> \o Sorted(S \ {m})

\* {i: c for c, i in enumerate(char_list)}
CharMapOf(cl) == [c \in {cl[j] : j \in 1..Len(cl)} |->
                    (CHOOSE j \in 1..Len(cl) : cl[j] = c) - 1]

char2idx(char) == char_map[char]

idx2char(idx) == char_list[idx + 1]

\* max([len(i) - 1 for i in species])
RECURSIVE MaxOf(_)
MaxOf(S) == LET m == CHOOSE c \in S : TRUE
            IN IF S = {m} THEN m
               ELSE LET r == MaxOf(S \ {m}) IN IF m > r THEN m ELSE r

MaxLenOf_NoMinus(sp) == MaxOf({Len(sp[i]) : i \in 1..Len(sp)})

MaxLenOf(sp) == MaxOf({Len(sp[i]) - 1 : i \in 1..Len(sp)})

\* np.zeros((T, n))
Zeros(T, n) == [t \in 0..(T - 1) |-> [k \in 0..(n - 1) |-> 0]]

\* for t in range(len(chars) - 1): row[t, char2idx(chars[t + shift])] = 1
RECURSIVE FillRow(_, _, _, _)
FillRow(row, chars, shift, t) ==
    IF t >= Len(chars) - 1 THEN row
    ELSE FillRow([row EXCEPT ![t][char2idx(chars[t + shift + 1])] = 1],
                 chars, shift, t + 1)

EncodeX_Shifted(sp, ml) == [i \in 0..(Len(sp) - 1) |->
                              FillRow(Zeros(ml, n_x), sp[i + 1], 1, 0)]

\* X = np.zeros((len(species), maxlen, n_x)), then X[i, t, char2idx(chars[t])] = 1
EncodeX(sp, ml) == [i \in 0..(Len(sp) - 1) |->
                      FillRow(Zeros(ml, n_x), sp[i + 1], 0, 0)]

EncodeY_NoShift(sp, ml) == [i \in 0..(Len(sp) - 1) |->
                              FillRow(Zeros(ml, n_x), sp[i + 1], 0, 0)]

\* Y = np.zeros(...), then Y[i, t, char2idx(chars[t + 1])] = 1
EncodeY(sp, ml) == [i \in 0..(Len(sp) - 1) |->
                      FillRow(Zeros(ml, n_x), sp[i + 1], 1, 0)]

\* ------------------------------------------------------------- cells 2-4
InitCommon ==
    /\ pc = "load"
    /\ species = <<>> /\ char_set = {} /\ n_x = 0
    /\ char_list = <<>> /\ char_map = <<>>
    /\ maxlen = 0 /\ X = <<>> /\ Y = <<>>
    /\ weights = 0 /\ epoch = 0 /\ log = <<>>
    /\ first_idx = None /\ x = <<>> /\ generated = <<>> /\ idx_sampled = None
    /\ staph = <<>> /\ round = 0 /\ candidates = {}

LoadCorpus ==
    /\ pc = "load"
    /\ species' = ReadSpecies(file)
    /\ char_set' = CharSetOf(species')
    /\ n_x' = Cardinality(char_set')
    /\ pc' = "maps"
    /\ UNCHANGED <<file, char_list, char_map, maxlen, X, Y>>
    /\ UNCHANGED <<trainVars, sampleVars, prefixVars>>

BuildMaps ==
    /\ pc = "maps"
    /\ char_list' = Sorted(char_set)
    /\ char_map' = CharMapOf(char_list')
    /\ pc' = "encode"
    /\ UNCHANGED <<file, species, char_set, n_x, maxlen, X, Y>>
    /\ UNCHANGED <<trainVars, sampleVars, prefixVars>>

\* max() of an empty list raises ValueError
EncodeFail ==
    /\ pc = "encode"
    /\ species = <<>>
    /\ pc' = "ValueError"
    /\ UNCHANGED <<dataVars, trainVars, sampleVars, prefixVars>>

Encode ==
    /\ pc = "encode"
    /\ species # <<>>
    /\ maxlen' = MaxLenOf(species)
    /\ X' = EncodeX(species, maxlen')
    /\ Y' = EncodeY(species, maxlen')
    /\ pc' = "model"
    /\ UNCHANGED <<file, species, char_set, n_x, char_list, char_map>>
    /\ UNCHANGED <<trainVars, sampleVars, prefixVars>>

InitEnc ==
    /\ InitCommon
    /\ \E n \in 0..MaxLines : file \in [1..n -> LastLines]
    /\ IsFile(file)
    /\ prefix = <<>>

NextEnc == LoadCorpus \/ BuildMaps \/ EncodeFail \/ Encode

SpecEnc == InitEnc /\ [][NextEnc]_vars

\* ------------------------------------------------- the files of a full run
\* "a_\n" (vocabulary @ _ a); "bc\n" "Bd\n" (vocabulary @ b c d, which lacks
\* the characters of the prefixes below); "-.\n" (two characters sort before
\* '@'); "a\n" (two symbols only); "a_b" (no newline, so no '@' in the
\* vocabulary); and the empty file.
RunFiles == {<<<<97, 95, NL>>>>,
             <<<<98, 99, NL>>, <<66, 100, NL>>>>,
             <<<<45, 46, NL>>>>,
             <<<<97, NL>>>>,
             <<<<97, 95, 98>>>>,
             <<>>}

\* The prefix is a literal of the last cell ("staphlococcus_"); the cell
\* reads it only through len(prefix), prefix[t] and prefix + ..., so it is
\* drawn here from short strings: "a", "a_".
Prefixes == {<<97>>, <<97, 95>>}

\* ------------------------------------------------------- cell 5 and cell 6
\* a np.zeros((1, 1, n_x)) step with position idx set to 1
OneHot(idx) == [k \in 0..(n_x - 1) |-> IF k = idx THEN 1 ELSE 0]

\* Sequential() ... model.compile(...): the parameters before any fit.
\* weights counts the gradient-descent passes applied to the parameters.
BuildModel ==
    /\ pc = "model"
    /\ weights' = 0
    /\ epoch' = 0
    /\ pc' = "epoch"
    /\ UNCHANGED <<dataVars, log, sampleVars, prefixVars>>

\* epoch % 10 > 0: model.fit(...); continue.  epoch is the position of the
\* range(101) iterator, the value the next pass binds.
FitOnly ==
    /\ pc = "epoch"
    /\ epoch < N_EPOCHS
    /\ epoch % CHECK_EVERY > 0
    /\ weights' = weights + 1
    /\ epoch' = epoch + 1
    /\ UNCHANGED <<pc, dataVars, log, sampleVars, prefixVars>>

\* the checkpoint branch without its fit
FitCheckpoint_NoFit ==
    /\ pc = "epoch"
    /\ epoch < N_EPOCHS
    /\ ~(epoch % CHECK_EVERY > 0)
    /\ generated' = <<>>
    /\ pc' = "first"
    /\ UNCHANGED <<dataVars, trainVars, first_idx, x, idx_sampled, prefixVars>>

\* epoch % 10 = 0: print("Epoch ..."); model.fit(...); generated = []
FitCheckpoint ==
    /\ pc = "epoch"
    /\ epoch < N_EPOCHS
    /\ ~(epoch % CHECK_EVERY > 0)
    /\ weights' = weights + 1
    /\ generated' = <<>>
    /\ pc' = "first"
    /\ UNCHANGED <<dataVars, epoch, log, first_idx, x, idx_sampled, prefixVars>>

\* first_idx = np.random.randint(2, n_x); x one-hot at first_idx;
\* generated.append(idx2char(first_idx))
FirstLetter ==
    /\ pc = "first"
    /\ \E i \in FIRST_LOW..(n_x - 1) :
        /\ first_idx' = i
        /\ x' = <<OneHot(i)>>
        /\ generated' = Append(generated, idx2char(i))
    /\ pc' = "sample"
    /\ UNCHANGED <<dataVars, trainVars, idx_sampled, prefixVars>>

\* np.random.randint(2, n_x) raises ValueError when n_x <= 2
FirstLetterFail ==
    /\ pc = "first"
    /\ n_x <= FIRST_LOW
    /\ pc' = "ValueError"
    /\ UNCHANGED <<dataVars, trainVars, sampleVars, prefixVars>>

\* an iteration that also trains on the drawn character
SampleChar_Fits ==
    /\ pc = "sample"
    /\ Len(generated) < 1 + MaxGen
    /\ \E i \in 0..(n_x - 1) :
        /\ ~(idx2char(i) = AT)
        /\ idx_sampled' = i
        /\ generated' = Append(generated, idx2char(i))
        /\ x' = x \o <<OneHot(i)>>
    /\ weights' = weights + 1
    /\ UNCHANGED <<pc, dataVars, epoch, log, first_idx, prefixVars>>

\* One iteration of the while loop that draws a character other than "@":
\* y_pred is a softmax output, so every index can be drawn.
SampleChar ==
    /\ pc = "sample"
    /\ Len(generated) < 1 + MaxGen
    /\ \E i \in 0..(n_x - 1) :
        /\ ~(idx2char(i) = AT)
        /\ idx_sampled' = i
        /\ generated' = Append(generated, idx2char(i))
        /\ x' = x \o <<OneHot(i)>>
    /\ UNCHANGED <<pc, dataVars, trainVars, first_idx, prefixVars>>

\* drawing "@" without the break
SampleTerminator_NoBreak ==
    /\ pc = "sample"
    /\ \E i \in 0..(n_x - 1) :
        /\ idx2char(i) = AT
        /\ idx_sampled' = i
    /\ UNCHANGED <<pc, dataVars, trainVars, first_idx, x, generated, prefixVars>>

\* The iteration that draws "@": break, print the name, next pass.
\* log records the passes whose generated name has been printed.
SampleTerminator ==
    /\ pc = "sample"
    /\ \E i \in 0..(n_x - 1) :
        /\ idx2char(i) = AT
        /\ idx_sampled' = i
    /\ log' = Append(log, epoch)
    /\ epoch' = epoch + 1
    /\ pc' = "epoch"
    /\ UNCHANGED <<dataVars, weights, first_idx, x, generated, prefixVars>>

\* range(101) is exhausted: the next cell runs
TrainDone ==
    /\ pc = "epoch"
    /\ ~(epoch < N_EPOCHS)
    /\ pc' = "prefix"
    /\ UNCHANGED <<dataVars, trainVars, sampleVars, prefixVars>>

\* ------------------------------------------------------------------ cell 7
\* staph[0, t, char2idx(prefix[t])] = 1 for every t; candidates = set()
EncodePrefix ==
    /\ pc = "prefix"
    /\ \A t \in 1..Len(prefix) : prefix[t] \in DOMAIN char_map
    /\ staph' = [t \in 1..Len(prefix) |-> OneHot(char2idx(prefix[t]))]
    /\ candidates' = {}
    /\ round' = 0
    /\ pc' = "round"
    /\ UNCHANGED <<dataVars, trainVars, sampleVars, prefix>>

\* char_map[char] raises KeyError for a character outside the vocabulary
EncodePrefixFail ==
    /\ pc = "prefix"
    /\ \E t \in 1..Len(prefix) : prefix[t] \notin DOMAIN char_map
    /\ pc' = "KeyError"
    /\ UNCHANGED <<dataVars, trainVars, sampleVars, prefixVars>>

\* a round that does not start again from the prefix encoding
StartRound_NoReset ==
    /\ pc = "round"
    /\ round < N_ROUNDS
    /\ generated' = <<>>
    /\ pc' = "complete"
    /\ UNCHANGED <<dataVars, trainVars, first_idx, x, idx_sampled, prefixVars>>

\* for _ in range(10): x = staph.copy(); generated = []
\* round is the position of the range(10) iterator.
StartRound ==
    /\ pc = "round"
    /\ round < N_ROUNDS
    /\ x' = staph
    /\ generated' = <<>>
    /\ pc' = "complete"
    /\ UNCHANGED <<dataVars, trainVars, first_idx, idx_sampled, prefixVars>>

CompleteChar ==
    /\ pc = "complete"
    /\ Len(generated) < MaxCompletion
    /\ \E i \in 0..(n_x - 1) :
        /\ ~(idx2char(i) = AT)
        /\ idx_sampled' = i
        /\ generated' = Append(generated, idx2char(i))
        /\ x' = x \o <<OneHot(i)>>
    /\ UNCHANGED <<pc, dataVars, trainVars, first_idx, prefixVars>>

\* candidates.add("".join(generated))
CompleteTerminator_NoPrefix ==
    /\ pc = "complete"
    /\ \E i \in 0..(n_x - 1) :
        /\ idx2char(i) = AT
        /\ idx_sampled' = i
    /\ candidates' = candidates \cup {generated}
    /\ round' = round + 1
    /\ pc' = "round"
    /\ UNCHANGED <<dataVars, trainVars, first_idx, x, generated, prefix, staph>>

\* candidates = {prefix + "".join(generated)}
CompleteTerminator_Replace ==
    /\ pc = "complete"
    /\ \E i \in 0..(n_x - 1) :
        /\ idx2char(i) = AT
        /\ idx_sampled' = i
    /\ candidates' = {prefix \o generated}
    /\ round' = round + 1
    /\ pc' = "round"
    /\ UNCHANGED <<dataVars, trainVars, first_idx, x, generated, prefix, staph>>

\* break; candidates.add(prefix + "".join(generated))
CompleteTerminator ==
    /\ pc = "complete"
    /\ \E i \in 0..(n_x - 1) :
        /\ idx2char(i) = AT
        /\ idx_sampled' = i
    /\ candidates' = candidates \cup {prefix \o generated}
    /\ round' = round + 1
    /\ pc' = "round"
    /\ UNCHANGED <<dataVars, trainVars, first_idx, x, generated, prefix, staph>>

\* range(10) is exhausted: print the candidates
PrintCandidates ==
    /\ pc = "round"
    /\ ~(round < N_ROUNDS)
    /\ pc' = "done"
    /\ UNCHANGED <<dataVars, trainVars, sampleVars, prefixVars>>

Init == InitCommon /\ file \in RunFiles /\ prefix \in Prefixes

Next ==
    \/ LoadCorpus \/ BuildMaps \/ EncodeFail \/ Encode
    \/ BuildModel \/ FitOnly \/ FitCheckpoint
    \/ FirstLetter \/ FirstLetterFail \/ SampleChar \/ SampleTerminator
    \/ TrainDone
    \/ EncodePrefix \/ EncodePrefixFail \/ StartRound
    \/ CompleteChar \/ CompleteTerminator \/ PrintCandidates

Spec == Init /\ [][Next]_vars

\* The draw is fair: a terminator draw that stays possible is eventually made.
FairSpec == Spec /\ WF_vars(SampleTerminator) /\ WF_vars(CompleteTerminator)

\* ------------------------------------------------------ encoder properties
Encoded == pc \notin {"load", "maps", "encode", "ValueError"}

Samples == 0..(Len(species) - 1)

\* the name of sample i, and Python's name[t]
Name(i) == species[i + 1]

CharAt(i, t) == species[i + 1][t + 1]

TerminatorEnded == \A i \in Samples : Name(i)[Len(Name(i))] = AT

ShapeOK(A) ==
    /\ DOMAIN A = Samples
    /\ \A i \in Samples :
        /\ DOMAIN A[i] = 0..(maxlen - 1)
        /\ \A t \in DOMAIN A[i] : DOMAIN A[i][t] = 0..(n_x - 1)

\* the set of positions of a vector that hold 1
Hot(v) == {k \in DOMAIN v : v[k] = 1}

\* C1: once the encoder has run on a corpus of terminator-ended names, X and
\* Y have shape (sample_count, max_length, vocab_size) with max_length the
\* longest name's length minus one, X[i,t,k] = 1 exactly when t is below
\* len(name_i) - 1 and k is the index of character t, Y[i,t,k] = 1 exactly
\* when t is below len(name_i) - 1 and k is the index of character t + 1, and
\* every other entry is 0.
C1_EncoderContract ==
    (Encoded /\ TerminatorEnded) =>
        /\ n_x = Cardinality(char_set)
        /\ ShapeOK(X) /\ ShapeOK(Y)
        /\ \A i \in Samples : Len(Name(i)) - 1 <= maxlen
        /\ \E i \in Samples : Len(Name(i)) - 1 = maxlen
        /\ \A i \in Samples : \A t \in 0..(maxlen - 1) : \A k \in 0..(n_x - 1) :
            /\ X[i][t][k] \in {0, 1}
            /\ Y[i][t][k] \in {0, 1}
            /\ X[i][t][k] = 1 <=>
                  (t < Len(Name(i)) - 1 /\ k = char2idx(CharAt(i, t)))
            /\ Y[i][t][k] = 1 <=>
                  (t < Len(Name(i)) - 1 /\ k = char2idx(CharAt(i, t + 1)))

\* two names of different lengths, so that the shorter one has padding steps
C1_Witness ==
    /\ Encoded /\ TerminatorEnded
    /\ \E i, j \in Samples : Len(Name(i)) = 3 /\ Len(Name(j)) = 2
    /\ \E i \in Samples : Hot(X[i][maxlen - 1]) = {} /\ Hot(X[i][0]) # {}

\* C2 as stated: at every valid step t < len(name_i) - 1 the target's one-hot
\* index is the one-hot index of the input at step t + 1.
C2_ShiftAllValidSteps ==
    Encoded =>
        \A i \in Samples : \A t \in 0..(Len(Name(i)) - 2) :
            /\ (t + 1) \in DOMAIN X[i]
            /\ Hot(Y[i][t]) # {}
            /\ Hot(Y[i][t]) = Hot(X[i][t + 1])

\* C2 amended: the shift relation holds at every valid step whose successor
\* is a valid step too, that is for 0 <= t < len(name_i) - 2; both vectors
\* are one-hot there.
C2_ShiftInnerSteps ==
    Encoded =>
        \A i \in Samples : \A t \in 0..(Len(Name(i)) - 3) :
            /\ (t + 1) \in DOMAIN X[i]
            /\ Cardinality(Hot(Y[i][t])) = 1
            /\ Hot(Y[i][t]) = Hot(X[i][t + 1])

\* a name with two different characters before its last one
C2_Witness ==
    /\ Encoded
    /\ \E i \in Samples : /\ Len(Name(i)) = 3
                            /\ CharAt(i, 0) # CharAt(i, 1)
                            /\ Hot(Y[i][0]) = {char2idx(CharAt(i, 1))}

\* decode a row step by step with idx2char, skipping the all-zero steps
RECURSIVE DecodeFrom(_, _)
DecodeFrom(row, t) ==
    IF t \notin DOMAIN row THEN <<>>
    ELSE IF Hot(row[t]) = {} THEN DecodeFrom(row, t + 1)
    ELSE <<idx2char(CHOOSE k \in Hot(row[t]) : TRUE)>> \o DecodeFrom(row, t + 1)

Decode(row) == DecodeFrom(row, 0)

\* C3 as stated: decoding the input row of a name gives back the name record
\* stored in species.
C3_RoundTripWholeName ==
    Encoded => \A i \in Samples : Decode(X[i]) = Name(i)

\* C3 amended: decoding the input row of a name gives back the name record
\* without its last character (the terminator, when the line ended with a
\* newline).
C3_RoundTripButLast ==
    Encoded => \A i \in Samples :
                  Decode(X[i]) = SubSeq(Name(i), 1, Len(Name(i)) - 1)

C3_Witness ==
    /\ Encoded
    /\ \E i \in Samples : Len(Name(i)) = 3 /\ Len(Decode(X[i])) = 2
    /\ \E i \in Samples : Len(Name(i)) - 1 < maxlen

\* ------------------------------------------------------ sampler properties
Chars(str) == {str[j] : j \in 1..Len(str)}

\* C4: neither the name built by the checkpoint sampler (its first character
\* included) nor any name returned by the prefix sampler contains '@'.
C4_NoTerminatorEmitted ==
    /\ AT \notin Chars(generated)
    /\ \A c \in candidates : AT \notin Chars(c)

StartsWith(str, pre) ==
    /\ Len(str) >= Len(pre)
    /\ SubSeq(str, 1, Len(pre)) = pre

\* C5: every name the prefix sampler has returned starts with the characters
\* of the prefix, in order, and the name returned by the round that has just
\* ended is the prefix followed by the characters drawn in that round.
C5_PrefixKept ==
    /\ \A c \in candidates : StartsWith(c, prefix)
    /\ (pc \in {"round", "done"} /\ round >= 1) =>
          /\ (prefix \o generated) \in candidates
          /\ AT \notin Chars(generated)
          /\ Len(x) = Len(prefix) + Len(generated)

C5_Witness ==
    /\ pc = "done"
    /\ \E c \in candidates : Len(c) > Len(prefix)
    /\ prefix \in candidates

InLoop == pc \in {"sample", "complete"}

\* C6: with '@' in the vocabulary and a fair draw, a sampling loop that is
\* running eventually stops; an iteration leaves the loop exactly when it
\* has drawn '@', and the generated text is then left as it was.
C6_Termination ==
    /\ (InLoop /\ AT \in char_set) ~> ~InLoop
    /\ [][InLoop => /\ (pc' = pc) <=> ~(idx2char(idx_sampled') = AT)
                    /\ (pc' # pc) => generated' = generated]_vars

C6_Witness ==
    /\ pc = "epoch" /\ epoch = 1 /\ Len(generated) = 3
    /\ idx2char(idx_sampled) = AT

InSampler == pc \in {"first", "sample", "round", "complete"}

\* C7: no sampler step changes the model parameters or the encoded batch;
\* the parameters change only in the fit of a pass, so every pass starts
\* from the parameters the previous pass's fit left.
C7_SamplingFrame ==
    [][/\ InSampler => (weights' = weights /\ X' = X /\ Y' = Y)
       /\ (weights' # weights) => (pc = "epoch" /\ epoch < N_EPOCHS)
       /\ (pc = "epoch" /\ pc' = "epoch" /\ epoch' = epoch + 1) =>
             (weights' = weights + 1 /\ weights = epoch)
       /\ (pc = "sample" /\ pc' = "epoch") => weights = epoch']_vars

\* the pass after a checkpoint whose sampler drew two characters
C7_Witness ==
    /\ pc = "epoch" /\ epoch = 12 /\ weights = 12
    /\ Len(generated) = 3 /\ Len(log) = 2

TrainingOver == pc \in {"prefix", "round", "complete", "done", "KeyError"}

\* C8: each round adds the name it generated to the candidates and nothing
\* else changes them; after the 10 rounds the set holds between 1 and 10
\* names.
C8_CandidateSet ==
    /\ [][/\ (pc = "complete" /\ pc' # "complete") =>
                candidates' = candidates \cup {prefix \o generated}
          /\ (pc # "complete") => candidates' = candidates]_vars
    /\ [](pc \in {"round", "complete", "done"} =>
             /\ Cardinality(candidates) <= round
             /\ round >= 1 => Cardinality(candidates) >= 1)
    /\ [](pc = "done" => /\ round = N_ROUNDS
                         /\ Cardinality(candidates) >= 1
                         /\ Cardinality(candidates) <= N_ROUNDS)

\* the rounds are over and duplicates have collapsed
C8_Witness ==
    /\ pc = "done"
    /\ Cardinality(candidates) = 2

\* C9: pass k starts with k fits done and performs one fit; the sampler runs
\* only in passes whose index is a multiple of 10, after the fit of that
\* pass; when the loop is over 101 fits have been done and the sampler has
\* reported at passes 0, 10, ..., 100.
C9_TrainingSchedule ==
    /\ pc = "epoch" => weights = epoch
    /\ pc \in {"first", "sample"} =>
          (epoch % CHECK_EVERY = 0 /\ epoch < N_EPOCHS /\ weights = epoch + 1)
    /\ \A j \in 1..Len(log) : log[j] = (j - 1) * CHECK_EVERY
    /\ pc = "epoch" => Len(log) = (epoch + CHECK_EVERY - 1) \div CHECK_EVERY
    /\ TrainingOver => (weights = 101 /\ Len(log) = 11 /\ log[11] = 100)

C9_Witness ==
    /\ pc = "prefix"
    /\ weights = 101
    /\ Len(log) = 11

\* the one-hot encoding of a text
IsEncodingOf(seq, text) ==
    /\ Len(seq) = Len(text)
    /\ \A t \in 1..Len(seq) :
        /\ DOMAIN seq[t] = 0..(n_x - 1)
        /\ \A k \in DOMAIN seq[t] : seq[t][k] \in {0, 1}
        /\ Cardinality(Hot(seq[t])) = 1
        /\ \A k \in Hot(seq[t]) : idx2char(k) = text[t]

\* C10: in the checkpoint loop x is the one-hot encoding of the first
\* character followed by the generated characters; in the prefix loop x is
\* the one-hot encoding of the prefix followed by the generated characters;
\* an iteration that stays in the loop appends one step to x and keeps the
\* earlier steps; every round starts from the prefix encoding, which no
\* round changes.
C10_RunningSequence ==
    /\ [](pc = "sample" => /\ IsEncodingOf(x, generated)
                           /\ generated[1] = idx2char(first_idx))
    /\ [](pc = "complete" => /\ IsEncodingOf(x, prefix \o generated)
                             /\ IsEncodingOf(staph, prefix))
    /\ [][InLoop =>
            /\ (pc' = pc) => /\ Len(x') = Len(x) + 1
                             /\ SubSeq(x', 1, Len(x)) = x
                             /\ Len(generated') = Len(generated) + 1
            /\ (pc' # pc) => x' = x]_vars
    /\ [][/\ (pc = "round" /\ pc' = "complete") => x' = staph
          /\ (pc \in {"round", "complete"}) => staph' = staph]_vars

\* a second round that has drawn a character
C10_Witness ==
    /\ pc = "complete" /\ round = 1
    /\ Len(generated) = 1
    /\ Len(x) = Len(prefix) + 1

====
